---------------------------- MODULE Spec2Model ----------------------------
(***************************************************************************)
(* Model of the DigitalSolutionsApp front-end controller                   *)
(* (src/js/script.js): the IT-needs estimator, the web-development wizard, *)
(* the WhatsApp lead forwarder and the portfolio filter.                   *)
(*                                                                         *)
(* Conventions.                                                            *)
(*  - A JavaScript string that the code parses or searches is a sequence   *)
(*    of one-character strings (<<"1","5","0","0">> is "1500"); a string   *)
(*    that is only copied or compared is a TLA+ string.                    *)
(*  - A JavaScript number is NaN or an exact rational num/den (den > 0).   *)
(*    The inputs of the model have at most one fractional digit, and on    *)
(*    them IEEE double arithmetic yields the same integers after           *)
(*    Math.ceil / Math.floor as exact arithmetic does.                     *)
(*  - DOM fields the program only reads (contact fields, selects, the      *)
(*    honeypot, the gtag global) are inputs of the handler that reads      *)
(*    them; DOM state the program reads back, or that decides what the     *)
(*    user sees of the wizard, is held in variables.  What a handler       *)
(*    writes and the program never reads (the rendered estimate, the       *)
(*    alerts, the analytics calls, the opened link) is recorded as the     *)
(*    effects of that handler run, in the variable last.                   *)
(***************************************************************************)
EXTENDS Integers, Sequences, FiniteSets, TLC

VARIABLES
    areaValue,        \* areaInput.value
    customValidity,   \* areaInput's custom validity message ("" = none)
    hidden,           \* element id -> has class 'hidden'
    hasWebsite,       \* value of the checked hasWebsite radio ("" = none checked)
    checked,          \* checkbox id -> checked
    selected,         \* problem card -> has class 'selected'
    submitDisabled,   \* submitBtn.disabled
    itemStyle,        \* portfolio item -> its style.display and style.animation
    itemCategory,     \* portfolio item -> data-category (markup, never written)
    activeFilter,     \* data-filter of the highlighted filter button
    timers,           \* links scheduled by openWhatsApp, not yet opened (FIFO)
    last,             \* effects of the most recent event handler run
    calcData,         \* argument of a direct calculateITNeeds evaluation
    calcResult,       \* its result (<<>> before)
    calcPrev          \* the evaluation before it: its argument and result

vars == <<areaValue, customValidity, hidden, hasWebsite, checked,
          selected, submitDisabled, itemStyle, itemCategory, activeFilter,
          timers, last, calcData, calcResult, calcPrev>>

-----------------------------------------------------------------------------
(* JavaScript numbers *)

NaN == [nan |-> TRUE, num |-> 0, den |-> 1]

Num(n) == [nan |-> FALSE, num |-> n, den |-> 1]

RECURSIVE Normalise(_)
Normalise(x) ==
    IF x.nan \/ x.den = 1 \/ x.num % 10 # 0 \/ x.den % 10 # 0
    THEN x
    ELSE Normalise([nan |-> FALSE, num |-> x.num \div 10, den |-> x.den \div 10])

isNaN(x) == x.nan

\* x < y, x > y: false when either side is NaN
NumLt(x, y) == ~x.nan /\ ~y.nan /\ x.num * y.den < y.num * x.den

NumGt(x, y) == NumLt(y, x)

NumLe(x, y) == ~x.nan /\ ~y.nan /\ x.num * y.den <= y.num * x.den

Mul(x, y) ==
    IF x.nan \/ y.nan THEN NaN
    ELSE [nan |-> FALSE, num |-> x.num * y.num, den |-> x.den * y.den]

\* x / n for a non-zero integer constant n > 0
DivInt(x, n) ==
    IF x.nan THEN NaN
    ELSE [nan |-> FALSE, num |-> x.num, den |-> x.den * n]

MathCeil(x) ==
    IF x.nan THEN NaN ELSE Num(-((-x.num) \div x.den))

MathFloor(x) ==
    IF x.nan THEN NaN ELSE Num(x.num \div x.den)

\* Math.max(n, x) for an integer n: NaN when x is NaN
MathMax(n, x) ==
    IF x.nan THEN NaN
    ELSE IF NumLt(x, Num(n)) THEN Num(n) ELSE x

IsInteger(x) == ~x.nan /\ x.den = 1

-----------------------------------------------------------------------------
(* parseFloat: optional sign, digits, optional fraction; the longest valid *)
(* prefix is parsed and the rest ignored; no digit at all gives NaN.       *)

DigitChars == {"0", "1", "2", "3", "4", "5", "6", "7", "8", "9"}

DigitVal(c) ==
    CASE c = "0" -> 0 [] c = "1" -> 1 [] c = "2" -> 2 [] c = "3" -> 3
      [] c = "4" -> 4 [] c = "5" -> 5 [] c = "6" -> 6 [] c = "7" -> 7
      [] c = "8" -> 8 [] c = "9" -> 9

\* number of consecutive digits of s from position i on
RECURSIVE DigitRun(_, _)
DigitRun(s, i) ==
    IF i <= Len(s) /\ s[i] \in DigitChars THEN 1 + DigitRun(s, i + 1) ELSE 0

\* value of the n digits of s that start at position i
RECURSIVE DigitsValue(_, _, _)
DigitsValue(s, i, n) ==
    IF n = 0 THEN 0
    ELSE DigitsValue(s, i, n - 1) * 10 + DigitVal(s[i + n - 1])

RECURSIVE Pow10(_)
Pow10(n) == IF n = 0 THEN 1 ELSE 10 * Pow10(n - 1)

parseFloat(s) ==
    LET neg    == Len(s) >= 1 /\ s[1] = "-"
        i0     == IF Len(s) >= 1 /\ s[1] \in {"-", "+"} THEN 2 ELSE 1
        nInt   == DigitRun(s, i0)
        hasDot == i0 + nInt <= Len(s) /\ s[i0 + nInt] = "."
        nFrac  == IF hasDot THEN DigitRun(s, i0 + nInt + 1) ELSE 0
        mag    == DigitsValue(s, i0, nInt) * Pow10(nFrac)
                    + DigitsValue(s, i0 + nInt + 1, nFrac)
    IN  IF nInt + nFrac = 0 THEN NaN
        ELSE Normalise([nan |-> FALSE,
                        num |-> IF neg THEN -mag ELSE mag,
                        den |-> Pow10(nFrac)])

-----------------------------------------------------------------------------
(* Application constants (this.constants) *)

BASE_COVERAGE == 1500

DEVICE_FACTOR == 2

SERVER_FACTOR_SQFT == 5000

WORKSTATION_FACTOR_SQFT == 200

MIN_AREA == 100

MAX_AREA == 100000

-----------------------------------------------------------------------------
(* Estimator *)

accessPointsOf(data) ==
    MathMax(1, MathCeil(DivInt(Mul(Mul(data.area, data.buildingFactor),
                                   data.usageFactor), BASE_COVERAGE)))

\* the estimate without its floor of 1
estimatedDevicesNoMax(data) ==
    MathFloor(Mul(Mul(DivInt(data.area, 100), data.usageFactor),
                  Num(DEVICE_FACTOR)))

estimatedDevicesOf(data) ==
    MathMax(1, MathFloor(Mul(Mul(DivInt(data.area, 100), data.usageFactor),
                             Num(DEVICE_FACTOR))))

\* the server count rounded down instead of up
recommendedServersFloor(data) ==
    MathMax(1, MathFloor(DivInt(data.area, SERVER_FACTOR_SQFT)))

recommendedServersOf(data) ==
    MathMax(1, MathCeil(DivInt(data.area, SERVER_FACTOR_SQFT)))

\* the workstation count dropped to 1 once more than one server is needed
recommendedWorkstationsReset(data) ==
    IF NumGt(data.area, Num(SERVER_FACTOR_SQFT)) THEN Num(1)
    ELSE MathMax(1, MathCeil(DivInt(data.area, WORKSTATION_FACTOR_SQFT)))

recommendedWorkstationsOf(data) ==
    MathMax(1, MathCeil(DivInt(data.area, WORKSTATION_FACTOR_SQFT)))

calculateITNeeds(data) ==
    [accessPoints            |-> accessPointsOf(data),
     estimatedDevices        |-> estimatedDevicesOf(data),
     recommendedServers      |-> recommendedServersOf(data),
     recommendedWorkstations |-> recommendedWorkstationsOf(data)]

\* an element of the page's building-type select: its value and its text
BuildingOptions ==
    {[value |-> <<"0", ".", "8">>, text |-> "Open plan"],
     [value |-> <<"1">>, text |-> "Office"],
     [value |-> <<"1", ".", "2">>, text |-> "Warehouse"],
     [value |-> <<"1", ".", "5">>, text |-> "Multi-storey"]}

\* values of the usage radios
UsageValues == {<<"0", ".", "4">>, <<"1">>, <<"1", ".", "5">>, <<"2">>}

\* the four service checkboxes, as read by getITFormData
AllServiceFlags ==
    [needsCabling : BOOLEAN, needsCCTV : BOOLEAN,
     needsAccessControl : BOOLEAN, needsTelephony : BOOLEAN]

\* fields is the DOM content the function reads: the building option, the
\* checked usage radio's value, the service flags, the contact fields
getITFormData(fields) ==
    [fullName           |-> fields.fullName,
     phone              |-> fields.phone,
     area               |-> parseFloat(areaValue),
     buildingFactor     |-> parseFloat(fields.building.value),
     usageFactor        |-> parseFloat(fields.usage[1]),
     needsCabling       |-> fields.flags.needsCabling,
     needsCCTV          |-> fields.flags.needsCCTV,
     needsAccessControl |-> fields.flags.needsAccessControl,
     needsTelephony     |-> fields.flags.needsTelephony,
     buildingType       |-> fields.building.text]

\* document.querySelector('input[name="usage"]:checked') is null when no
\* usage radio is checked and reading .value of it throws a TypeError
getITFormDataThrows(fields) == fields.usage = <<>>

displayServices(formData) ==
    (IF formData.needsCabling THEN <<"structured cabling">> ELSE <<>>)
    \o (IF formData.needsCCTV THEN <<"CCTV">> ELSE <<>>)
    \o (IF formData.needsAccessControl THEN <<"access control">> ELSE <<>>)
    \o (IF formData.needsTelephony THEN <<"telephony">> ELSE <<>>)

\* the DOM content displayITResults writes (its delayed scrollIntoView
\* changes nothing that is modelled)
displayITResults(formData, results) ==
    LET services == displayServices(formData)
    IN  [area         |-> formData.area,
         buildingType |-> formData.buildingType,
         wifi         |-> [oneSystem |-> NumLe(results.accessPoints, Num(1)),
                           accessPoints |-> results.accessPoints],
         workstations |-> results.recommendedWorkstations,
         servers      |-> results.recommendedServers,
         serverWord   |-> IF NumGt(results.recommendedServers, Num(1))
                          THEN "servers" ELSE "server",
         consider     |-> services,
         additionalServicesText |->
             IF Len(services) # 0 THEN <<"Includes">> \o services
             ELSE <<"Basic IT infrastructure assessment">>,
         ctaButton    |->
             IF Len(services) # 0 THEN "Get Complete IT Solution Quote"
             ELSE "Get Free IT Consultation",
         deviceCount  |-> results.estimatedDevices]

-----------------------------------------------------------------------------
(* WhatsApp integration *)

WHATSAPP_NUMBER == "254717340777"

\* at most MaxPending links wait for their timeout at one time
MaxPending == 2

\* a text with a lone surrogate: not well-formed UTF-16
LoneSurrogateName == "Asha<lone surrogate U+D800>"

\* encodeURIComponent throws a URIError on a text with a lone surrogate;
\* the name is the free text of the message that the modelled inputs vary
encodeURIComponentThrows(message) == message.name = LoneSurrogateName

\* encodeURIComponent is kept symbolic: an injective wrapping of the message
encodeURIComponent(message) == <<"encodeURIComponent", message>>

whatsappLink(message) ==
    [host |-> "https://wa.me/", number |-> WHATSAPP_NUMBER,
     text |-> encodeURIComponent(message)]

\* the link scheduled twice
openWhatsAppTwice(message) ==
    Append(Append(timers, whatsappLink(message)), whatsappLink(message))

\* openWhatsApp: the timer queue after setTimeout(() => window.open(link), 1000)
openWhatsApp(message) == Append(timers, whatsappLink(message))

\* the services pushed in another order: telephony before access control
whatsappServicesReordered(formData) ==
    (IF formData.needsCabling THEN <<"structured cabling">> ELSE <<>>)
    \o (IF formData.needsCCTV THEN <<"CCTV">> ELSE <<>>)
    \o (IF formData.needsTelephony THEN <<"telephony">> ELSE <<>>)
    \o (IF formData.needsAccessControl THEN <<"access control">> ELSE <<>>)

whatsappServices(formData) ==
    (IF formData.needsCabling THEN <<"structured cabling">> ELSE <<>>)
    \o (IF formData.needsCCTV THEN <<"CCTV">> ELSE <<>>)
    \o (IF formData.needsAccessControl THEN <<"access control">> ELSE <<>>)
    \o (IF formData.needsTelephony THEN <<"telephony">> ELSE <<>>)

\* the message sendITAssessmentToWhatsApp builds
itAssessmentMessage(formData, results) ==
    LET services == whatsappServices(formData)
    IN  [title    |-> "*New IT Infrastructure Assessment*",
         name     |-> formData.fullName,
         phone    |-> formData.phone,
         buildingType |-> formData.buildingType,
         area     |-> formData.area,
         accessPoints |-> results.accessPoints,
         estimatedDevices |-> results.estimatedDevices,
         workstations |-> results.recommendedWorkstations,
         servers  |-> results.recommendedServers,
         additionalServices |-> services,
         footer   |-> "_Generated by Digital Solutions App_"]

-----------------------------------------------------------------------------
(* Effects of one handler run *)

NoEffects(op) ==
    [op       |-> op,
     reported |-> FALSE,  \* areaInput.reportValidity() was called
     alerts   |-> <<>>,   \* messages passed to showErrorToast
     calc     |-> <<>>,   \* arguments calculateITNeeds was called with
     sent     |-> <<>>,   \* messages openWhatsApp was called with
     tracked  |-> <<>>,   \* event names trackEvent was called with
     gtag     |-> <<>>,   \* event names passed to gtag
     threw    |-> FALSE,  \* an exception was raised during the run
     uncaught |-> FALSE,  \* an exception left the handler
     form     |-> <<>>,   \* the form data the handler collected
     rendered |-> <<>>,   \* what displayITResults wrote to the result region
     opened   |-> <<>>,   \* links passed to window.open
     honeypot |-> "",     \* honeypotField.value as the handler read it
     target   |-> ""]     \* the step id showStep was called with

\* a handler that reports, computes and sends nothing
Quiet == NoEffects("")

showErrorToast(effects, message) ==
    [effects EXCEPT !.alerts = Append(@, message)]

\* gtagDefined: typeof gtag === 'function'
trackEvent(effects, gtagDefined, eventName) ==
    IF gtagDefined
    THEN [effects EXCEPT !.tracked = Append(@, eventName),
                         !.gtag = Append(@, eventName)]
    ELSE [effects EXCEPT !.tracked = Append(@, eventName)]

-----------------------------------------------------------------------------
(* IT assessment handlers *)

validateAreaInput(value) ==
    LET v == parseFloat(value)
    IN  IF isNaN(v) \/ NumLt(v, Num(MIN_AREA))
        THEN "Please enter an area of at least 100 sq. ft"
        ELSE IF NumGt(v, Num(MAX_AREA))
        THEN "Maximum area is 100000 sq. ft"
        ELSE ""

\* areaInput.checkValidity(): no custom error was set by validateAreaInput,
\* and the field, which the form requires, is filled
areaCheckValidity == customValidity = "" /\ areaValue # <<>>

\* the submit handler whose display also removes 'hidden' from step1
handleServiceFormSubmitShowsStep(fields, gtagDefined) ==
    LET e0 == NoEffects("handleServiceFormSubmit")
    IN  IF ~areaCheckValidity
        THEN /\ last' = [e0 EXCEPT !.reported = TRUE]
             /\ UNCHANGED hidden
        ELSE IF ~fields.nameOk \/ ~fields.phoneOk
        THEN /\ last' = showErrorToast(e0, "Please provide your name and phone number")
             /\ UNCHANGED hidden
        ELSE IF getITFormDataThrows(fields)
        THEN /\ last' = showErrorToast([e0 EXCEPT !.threw = TRUE],
                                       "An error occurred. Please try again.")
             /\ UNCHANGED hidden
        ELSE LET formData == getITFormData(fields)
                 results  == calculateITNeeds(formData)
             IN  /\ hidden' = [hidden EXCEPT !["estimateResult"] = FALSE,
                                              !["step1"] = FALSE]
                 /\ last' = trackEvent(
                        [e0 EXCEPT !.calc = <<formData>>, !.form = <<formData>>,
                                   !.rendered = <<displayITResults(formData, results)>>],
                        gtagDefined, "it_assessment_submission")

handleServiceFormSubmit(fields, gtagDefined) ==
    LET e0 == NoEffects("handleServiceFormSubmit")
    IN  IF ~areaCheckValidity
        THEN /\ last' = [e0 EXCEPT !.reported = TRUE]
             /\ UNCHANGED hidden
        ELSE IF ~fields.nameOk \/ ~fields.phoneOk
        THEN /\ last' = showErrorToast(e0, "Please provide your name and phone number")
             /\ UNCHANGED hidden
        ELSE IF getITFormDataThrows(fields)
        THEN /\ last' = showErrorToast([e0 EXCEPT !.threw = TRUE],
                                       "An error occurred. Please try again.")
             /\ UNCHANGED hidden
        ELSE LET formData == getITFormData(fields)
                 results  == calculateITNeeds(formData)
             IN  /\ hidden' = [hidden EXCEPT !["estimateResult"] = FALSE]
                 /\ last' = trackEvent(
                        [e0 EXCEPT !.calc = <<formData>>, !.form = <<formData>>,
                                   !.rendered = <<displayITResults(formData, results)>>],
                        gtagDefined, "it_assessment_submission")

handleITCTA(fields) ==
    LET e0 == NoEffects("handleITCTA")
    IN  IF ~fields.nameOk \/ ~fields.phoneOk
        THEN /\ last' = showErrorToast(e0, "Please provide your name and phone number")
             /\ UNCHANGED timers
        ELSE IF getITFormDataThrows(fields)
        THEN /\ last' = showErrorToast([e0 EXCEPT !.threw = TRUE],
                                       "Failed to send. Please try again.")
             /\ UNCHANGED timers
        ELSE LET formData == getITFormData(fields)
                 results  == calculateITNeeds(formData)
                 message  == itAssessmentMessage(formData, results)
                 e1       == [e0 EXCEPT !.calc = <<formData>>,
                                        !.form = <<formData>>,
                                        !.sent = <<message>>]
             IN  IF encodeURIComponentThrows(message)
                 THEN /\ UNCHANGED timers
                      /\ last' = showErrorToast([e1 EXCEPT !.threw = TRUE],
                            "Couldn't open WhatsApp. Please contact us directly.")
                 ELSE /\ timers' = openWhatsApp(message)
                      /\ last' = e1

-----------------------------------------------------------------------------
(* Web-development wizard *)

StepIds == {"step1", "step2", "step3", "step4"}

Panels == StepIds \cup {"thankYouMessage"}

ElementIds ==
    Panels \cup {"problemsSection", "benefitsSection", "websiteUrlContainer",
                 "estimateResult"}

\* values of data-step-target on the navigation buttons
StepTargets == StepIds

\* the target shown without the other steps being hidden first
showStepNoHide(h, stepId) ==
    IF stepId \in DOMAIN h THEN [h EXCEPT ![stepId] = FALSE] ELSE h

showStep(h, stepId) ==
    LET allHidden == [e \in DOMAIN h |-> IF e \in StepIds THEN TRUE ELSE h[e]]
    IN  IF stepId \in DOMAIN h
        THEN [allHidden EXCEPT ![stepId] = FALSE]
        ELSE allHidden

\* the benefits section toggled with the same polarity as the problems
toggleWebsiteFieldsSame(h, yes) ==
    [h EXCEPT !["problemsSection"] = ~yes,
              !["benefitsSection"] = ~yes,
              !["websiteUrlContainer"] = ~yes]

\* classList.toggle('hidden', force) sets the class when force is true
toggleWebsiteFields(h, yes) ==
    [h EXCEPT !["problemsSection"] = ~yes,
              !["benefitsSection"] = yes,
              !["websiteUrlContainer"] = ~yes]

\* checkboxes of #problemsSection and of #benefitsSection, in document order
ProblemBoxes == <<"p1", "p2">>

BenefitBoxes == <<"b1", "b2">>

Range(seq) == {seq[i] : i \in 1..Len(seq)}

CheckboxIds == Range(ProblemBoxes) \cup Range(BenefitBoxes)

\* the checkboxes that sit in a .problem-card
CardBoxes == Range(ProblemBoxes)

\* cb.nextElementSibling.textContent.trim()
LabelOf(cb) ==
    CASE cb = "p1" -> "Slow loading"
      [] cb = "p2" -> "Not mobile friendly"
      [] cb = "b1" -> "More customers"
      [] cb = "b2" -> "Online sales"

\* the labels of the checked boxes of one section, in document order
RECURSIVE checkedLabels(_)
checkedLabels(boxes) ==
    IF boxes = <<>> THEN <<>>
    ELSE (IF checked[Head(boxes)] THEN <<LabelOf(Head(boxes))>> ELSE <<>>)
         \o checkedLabels(Tail(boxes))

\* the selector without :checked: every problem label
getAllProblems == [i \in 1..Len(ProblemBoxes) |-> LabelOf(ProblemBoxes[i])]

getSelectedProblems == checkedLabels(ProblemBoxes)

getSelectedBenefits == checkedLabels(BenefitBoxes)

\* querySelector('input[name="hasWebsite"]:checked') is null when no radio
\* is checked and reading .value of it throws a TypeError
getWebDevFormDataThrows == hasWebsite = ""

getWebDevFormData(fields) ==
    [fullName    |-> fields.fullName,
     phone       |-> fields.phone,
     hasWebsite  |-> hasWebsite,
     websiteUrl  |-> fields.websiteUrl,
     projectType |-> fields.projectType,
     primaryGoal |-> fields.primaryGoal,
     timeline    |-> fields.timeline,
     problems    |-> getSelectedProblems,
     benefits    |-> getSelectedBenefits]

\* forEach((p, i) => `${i + 1}. ${p}`)
numbered(labels) == [i \in 1..Len(labels) |-> [n |-> i, text |-> labels[i]]]

\* the message with each list added whenever it is not empty, whatever the
\* hasWebsite answer
webDevMessageAnyList(formData) ==
    [title       |-> "*New Web Development Inquiry*",
     name        |-> formData.fullName,
     phone       |-> formData.phone,
     hasWebsite  |-> IF formData.hasWebsite = "yes" THEN "Yes" ELSE "No",
     websiteUrl  |-> IF formData.hasWebsite = "yes" /\ formData.websiteUrl # ""
                     THEN <<formData.websiteUrl>> ELSE <<>>,
     projectType |-> formData.projectType,
     primaryGoal |-> formData.primaryGoal,
     timeline    |-> formData.timeline,
     reportedProblems |->
         IF Len(formData.problems) # 0
         THEN <<[header |-> "*Reported Problems:*",
                 items  |-> numbered(formData.problems)]>>
         ELSE <<>>,
     desiredBenefits |->
         IF Len(formData.benefits) # 0
         THEN <<[header |-> "*Desired Benefits:*",
                 items  |-> numbered(formData.benefits)]>>
         ELSE <<>>,
     footer      |-> "_Generated by Digital Solutions App_"]

\* the message sendWebDevToWhatsApp builds; an absent section is <<>>
webDevMessage(formData) ==
    [title       |-> "*New Web Development Inquiry*",
     name        |-> formData.fullName,
     phone       |-> formData.phone,
     hasWebsite  |-> IF formData.hasWebsite = "yes" THEN "Yes" ELSE "No",
     websiteUrl  |-> IF formData.hasWebsite = "yes" /\ formData.websiteUrl # ""
                     THEN <<formData.websiteUrl>> ELSE <<>>,
     projectType |-> formData.projectType,
     primaryGoal |-> formData.primaryGoal,
     timeline    |-> formData.timeline,
     reportedProblems |->
         IF formData.hasWebsite = "yes" /\ Len(formData.problems) # 0
         THEN <<[header |-> "*Reported Problems:*",
                 items  |-> numbered(formData.problems)]>>
         ELSE <<>>,
     desiredBenefits |->
         IF formData.hasWebsite = "no" /\ Len(formData.benefits) # 0
         THEN <<[header |-> "*Desired Benefits:*",
                 items  |-> numbered(formData.benefits)]>>
         ELSE <<>>,
     footer      |-> "_Generated by Digital Solutions App_"]

\* the handler without its honeypot check
handleWebDevSubmitNoHoneypot(fields, gtagDefined) ==
    LET e0 == [NoEffects("handleWebDevSubmit") EXCEPT !.honeypot = fields.honeypot]
    IN  IF getWebDevFormDataThrows
        THEN /\ last' = [e0 EXCEPT !.threw = TRUE, !.uncaught = TRUE]
             /\ UNCHANGED <<hidden, timers>>
        ELSE LET formData == getWebDevFormData(fields)
                 message  == webDevMessage(formData)
                 e1       == [e0 EXCEPT !.form = <<formData>>,
                                        !.sent = <<message>>]
             IN  /\ hidden' = [hidden EXCEPT !["step4"] = TRUE,
                                              !["thankYouMessage"] = FALSE]
                 /\ IF encodeURIComponentThrows(message)
                    THEN /\ UNCHANGED timers
                         /\ last' = trackEvent(
                               showErrorToast([e1 EXCEPT !.threw = TRUE],
                                 "Couldn't open WhatsApp. Please contact us directly."),
                               gtagDefined, "webdev_assessment_submission")
                    ELSE /\ timers' = openWhatsApp(message)
                         /\ last' = trackEvent(e1, gtagDefined,
                                               "webdev_assessment_submission")

handleWebDevSubmit(fields, gtagDefined) ==
    LET e0 == [NoEffects("handleWebDevSubmit") EXCEPT !.honeypot = fields.honeypot]
    IN  IF fields.honeypot # ""
        THEN /\ last' = e0
             /\ UNCHANGED <<hidden, timers>>
        ELSE IF getWebDevFormDataThrows
        THEN /\ last' = [e0 EXCEPT !.threw = TRUE, !.uncaught = TRUE]
             /\ UNCHANGED <<hidden, timers>>
        ELSE LET formData == getWebDevFormData(fields)
                 message  == webDevMessage(formData)
                 e1       == [e0 EXCEPT !.form = <<formData>>,
                                        !.sent = <<message>>]
             IN  /\ hidden' = [hidden EXCEPT !["step4"] = TRUE,
                                              !["thankYouMessage"] = FALSE]
                 /\ IF encodeURIComponentThrows(message)
                    THEN /\ UNCHANGED timers
                         /\ last' = trackEvent(
                               showErrorToast([e1 EXCEPT !.threw = TRUE],
                                 "Couldn't open WhatsApp. Please contact us directly."),
                               gtagDefined, "webdev_assessment_submission")
                    ELSE /\ timers' = openWhatsApp(message)
                         /\ last' = trackEvent(e1, gtagDefined,
                                               "webdev_assessment_submission")

-----------------------------------------------------------------------------
(* Portfolio filter *)

\* the page shows NumItems portfolio items
NumItems == 2

Items == 1..NumItems

\* String.prototype.includes: sub occurs in s as a contiguous substring
includes(s, sub) ==
    \E i \in 1..(Len(s) - Len(sub) + 1) : SubSeq(s, i, i + Len(sub) - 1) = sub

filterPortfolioItems(filter) ==
    [i \in Items |->
        LET shouldShow == filter = <<"a", "l", "l">> \/ includes(itemCategory[i], filter)
        IN  [display   |-> IF shouldShow THEN "block" ELSE "none",
             animation |-> IF shouldShow THEN "fadeIn 0.3s ease-out"
                           ELSE itemStyle[i].animation]]

\* handleFilterClick: the clicked button alone is highlighted, then the
\* items are filtered by its data-filter
handleFilterClick(filter) ==
    /\ activeFilter' = {filter}
    /\ itemStyle' = filterPortfolioItems(filter)

\* data-filter of the filter buttons
FilterTexts ==
    {<<"a", "l", "l">>, <<"w", "e", "b">>, <<"i", "t">>, <<"a", "p", "p">>}

\* data-category values a portfolio item may carry (tags separated by spaces)
CategoryTexts ==
    {<<"w", "e", "b">>, <<"i", "t">>, <<"w", "e", "b", " ", "i", "t">>,
     <<"w", "e", "b", "s", "i", "t", "e">>, <<"d", "e", "s", "i", "g", "n">>}

-----------------------------------------------------------------------------
(* Inputs *)

\* texts typed into the area field
AreaTexts ==
    {<<>>, <<"a", "b", "c">>, <<"5", "0">>,
     <<"1", "0", "0">>, <<"1", "5", "0", "0">>,
     <<"1", "0", "0", "0", "0", "0">>,
     <<"1", "0", "0", "0", "0", "0", ".", "1">>}

\* the contact fields with the result of their checkValidity()
ContactInputs ==
    {[fullName |-> "Asha", phone |-> "0717000000", nameOk |-> TRUE, phoneOk |-> TRUE],
     [fullName |-> "", phone |-> "0717000000", nameOk |-> FALSE, phoneOk |-> TRUE],
     [fullName |-> "Asha", phone |-> "", nameOk |-> TRUE, phoneOk |-> FALSE],
     [fullName |-> LoneSurrogateName, phone |-> "0717000000", nameOk |-> TRUE,
      phoneOk |-> TRUE]}

\* service flag combinations the handlers are run with
HandlerServiceFlags ==
    {f \in AllServiceFlags :
        \/ ~(f.needsCabling \/ f.needsCCTV \/ f.needsAccessControl \/ f.needsTelephony)
        \/ (f.needsCCTV /\ ~f.needsCabling /\ ~f.needsAccessControl /\ f.needsTelephony)}

\* what the IT form holds when a handler reads it; usage is <<>> when no
\* usage radio is checked
ITFieldInputs ==
    {[fullName |-> c.fullName, phone |-> c.phone, nameOk |-> c.nameOk,
      phoneOk |-> c.phoneOk, building |-> b, usage |-> u, flags |-> f] :
        c \in ContactInputs,
        b \in {o \in BuildingOptions : o.text = "Warehouse"},
        u \in {<<>>, <<(<<"2">>)>>}, f \in HandlerServiceFlags}

\* the IT form with every combination of the four service flags
ServiceFieldInputs ==
    {[fullName |-> c.fullName, phone |-> c.phone, nameOk |-> c.nameOk,
      phoneOk |-> c.phoneOk, building |-> b, usage |-> <<u>>, flags |-> f] :
        c \in {k \in ContactInputs : k.nameOk /\ k.phoneOk},
        b \in BuildingOptions, u \in {<<"1">>}, f \in AllServiceFlags}

\* area texts with a fraction, just below the range and inside it
FractionalAreaTexts == {<<"9", "9", ".", "9">>, <<"2", "5", "0", ".", "5">>}

\* areas calculateITNeeds is evaluated on directly, besides the typed texts
AreaSamples ==
    {100, 101, 199, 200, 201, 1499, 1500, 1501, 2500, 4999, 5000, 5001,
     10000, 99999, 100000}

CalcInputs ==
    [area : {Num(n) : n \in AreaSamples}
              \cup {parseFloat(t) : t \in AreaTexts \cup FractionalAreaTexts},
     buildingFactor : {parseFloat(o.value) : o \in BuildingOptions},
     usageFactor : {parseFloat(v) : v \in UsageValues}]

\* what the web-development form holds when the submit handler reads it
WebFieldInputs ==
    [fullName : {"Asha", LoneSurrogateName}, phone : {"0717000000"},
     websiteUrl : {"https://example.com"},
     projectType : {"New website"}, primaryGoal : {"Sell online"},
     timeline : {"1 month"}, honeypot : {"", "http://spam.example"}]

-----------------------------------------------------------------------------
(* Initial state: the page as loaded *)

\* the markup all specifications but the portfolio's start from
DefaultCategory == [i \in Items |-> IF i = 1 THEN <<"w", "e", "b">> ELSE <<"i", "t">>]

DefaultCalcData ==
    [area |-> Num(MIN_AREA), buildingFactor |-> Num(1), usageFactor |-> Num(1)]

\* the page as loaded, but for the area field
InitPage ==
    /\ hidden = [e \in ElementIds |-> e # "step1"]
    /\ hasWebsite = ""
    /\ checked = [cb \in CheckboxIds |-> FALSE]
    /\ selected = [cb \in CardBoxes |-> FALSE]
    /\ submitDisabled = TRUE
    /\ itemStyle = [i \in Items |-> [display |-> "", animation |-> ""]]
    /\ activeFilter = {<<"a", "l", "l">>}
    /\ timers = <<>>
    /\ last = Quiet

InitDom ==
    /\ areaValue = <<>>
    /\ customValidity = ""
    /\ InitPage

Init ==
    /\ InitDom
    /\ itemCategory = DefaultCategory
    /\ calcData = DefaultCalcData
    /\ calcResult = <<>>
    /\ calcPrev = <<>>

\* the page with any of the modelled portfolio markups
InitPortfolio ==
    /\ InitDom
    /\ itemCategory \in [Items -> CategoryTexts]
    /\ calcData = DefaultCalcData
    /\ calcResult = <<>>
    /\ calcPrev = <<>>

\* area texts left in the field: one below the range, one inside it
FlowAreaTexts == {<<"5", "0">>, <<"1", "5", "0", "0">>}

\* the page after an area was typed: validateAreaInput has run on it
InitFlows ==
    /\ areaValue \in FlowAreaTexts
    /\ customValidity = validateAreaInput(areaValue)
    /\ InitPage
    /\ itemCategory = DefaultCategory
    /\ calcData = DefaultCalcData
    /\ calcResult = <<>>
    /\ calcPrev = <<>>

\* a direct evaluation of the estimator on any of the modelled inputs
InitCalc ==
    /\ InitDom
    /\ itemCategory = DefaultCategory
    /\ calcData \in CalcInputs
    /\ calcResult = <<>>
    /\ calcPrev = <<>>

-----------------------------------------------------------------------------
(* Events *)

estVars == <<areaValue, customValidity>>

webVars == <<hasWebsite, checked, selected, submitDisabled>>

portVars == <<itemStyle, itemCategory, activeFilter>>

calcVars == <<calcData, calcResult, calcPrev>>

\* 'input' on the area field: the user's text, then validateAreaInput
AreaInput ==
    /\ \E t \in AreaTexts :
          /\ areaValue' = t
          /\ customValidity' = validateAreaInput(t)
    /\ last' = Quiet
    /\ UNCHANGED <<hidden, webVars, portVars, timers, calcVars>>

\* 'submit' on connectivityForm
ServiceFormSubmit ==
    /\ \E fields \in ITFieldInputs, gtagDefined \in BOOLEAN :
          handleServiceFormSubmit(fields, gtagDefined)
    /\ UNCHANGED <<estVars, webVars, portVars, timers, calcVars>>

\* 'click' on ctaButton
CTAClick ==
    /\ Len(timers) < MaxPending
    /\ \E fields \in ITFieldInputs : handleITCTA(fields)
    /\ UNCHANGED <<estVars, hidden, webVars, portVars, calcVars>>

\* the timeout of the oldest scheduled link expires: window.open(link)
TimerFire ==
    /\ timers # <<>>
    /\ timers' = Tail(timers)
    /\ last' = [NoEffects("timeout") EXCEPT !.opened = <<Head(timers)>>]
    /\ UNCHANGED <<estVars, hidden, webVars, portVars, calcVars>>

\* 'click' on a [data-step-target] button
StepNavClick ==
    /\ \E t \in StepTargets :
          /\ hidden' = showStep(hidden, t)
          /\ last' = [NoEffects("showStep") EXCEPT !.target = t]
    /\ UNCHANGED <<estVars, webVars, portVars, timers, calcVars>>

\* 'change' on a hasWebsite radio: it became the checked one
HasWebsiteChange ==
    /\ \E v \in {"yes", "no"} :
          /\ hasWebsite # v
          /\ hasWebsite' = v
          /\ hidden' = toggleWebsiteFields(hidden, v = "yes")
    /\ last' = Quiet
    /\ UNCHANGED <<estVars, checked, selected, submitDisabled, portVars, timers,
                   calcVars>>

\* 'click' on a problem card outside its checkbox
ProblemCardClick ==
    /\ \E cb \in CardBoxes :
          /\ checked' = [checked EXCEPT ![cb] = ~checked[cb]]
          /\ selected' = [selected EXCEPT ![cb] = ~checked[cb]]
    /\ last' = Quiet
    /\ UNCHANGED <<estVars, hidden, hasWebsite, submitDisabled, portVars, timers,
                   calcVars>>

\* 'click' on a checkbox itself: the browser toggles it; the card's
\* listener sees e.target.tagName === 'INPUT' and does nothing
CheckboxClick ==
    /\ \E cb \in CheckboxIds : checked' = [checked EXCEPT ![cb] = ~checked[cb]]
    /\ last' = Quiet
    /\ UNCHANGED <<estVars, hidden, hasWebsite, selected, submitDisabled, portVars,
                   timers, calcVars>>

\* enableSubmit flipping the flag instead of clearing it
EnableSubmitFlips ==
    /\ submitDisabled' = ~submitDisabled
    /\ last' = NoEffects("enableSubmit")
    /\ UNCHANGED <<estVars, hidden, hasWebsite, checked, selected, portVars,
                   timers, calcVars>>

\* window.enableSubmit(), the reCAPTCHA callback
EnableSubmit ==
    /\ submitDisabled' = FALSE
    /\ last' = NoEffects("enableSubmit")
    /\ UNCHANGED <<estVars, hidden, hasWebsite, checked, selected, portVars,
                   timers, calcVars>>

\* 'submit' on webDevelopmentForm; the browser submits a form only through
\* a submit control that is not disabled
WebDevSubmit ==
    /\ ~submitDisabled
    /\ Len(timers) < MaxPending
    /\ \E fields \in WebFieldInputs, gtagDefined \in BOOLEAN :
          handleWebDevSubmit(fields, gtagDefined)
    /\ UNCHANGED <<estVars, webVars, portVars, calcVars>>

\* 'click' on a filter button
FilterClick ==
    /\ \E f \in FilterTexts : handleFilterClick(f)
    /\ itemCategory' = itemCategory
    /\ last' = NoEffects("handleFilterClick")
    /\ UNCHANGED <<estVars, hidden, webVars, timers, calcVars>>

\* displayITResults and the message of sendITAssessmentToWhatsApp, both
\* applied to the form data getITFormData reads
RenderAndCompose ==
    /\ \E fields \in ServiceFieldInputs :
          LET formData == getITFormData(fields)
              results  == calculateITNeeds(formData)
          IN  last' = [NoEffects("services") EXCEPT
                          !.form = <<formData>>,
                          !.rendered = <<displayITResults(formData, results)>>,
                          !.sent = <<itAssessmentMessage(formData, results)>>]
    /\ UNCHANGED <<estVars, hidden, webVars, portVars, timers, calcVars>>

\* calculateITNeeds applied to the chosen data
Calculate ==
    /\ calcResult = <<>>
    /\ calcResult' = <<calculateITNeeds(calcData)>>
    /\ UNCHANGED <<estVars, hidden, webVars, portVars, timers, last, calcData,
                   calcPrev>>

\* another evaluation: new data, no result yet
CalcAgain ==
    /\ calcResult # <<>>
    /\ calcData' \in CalcInputs
    /\ calcResult' = <<>>
    /\ calcPrev' = <<>>
    /\ UNCHANGED <<estVars, hidden, webVars, portVars, timers, last>>

\* a second evaluation right after one: calculateITNeeds applied to another
\* area with the same factors, the evaluation before it kept for comparison
CalculateNext ==
    /\ calcResult # <<>>
    /\ calcPrev = <<>>
    /\ \E d \in {c \in CalcInputs :
                    /\ c.buildingFactor = calcData.buildingFactor
                    /\ c.usageFactor = calcData.usageFactor} :
          /\ calcPrev' = <<[data |-> calcData, result |-> calcResult[1]]>>
          /\ calcData' = d
          /\ calcResult' = <<calculateITNeeds(d)>>
    /\ UNCHANGED <<estVars, hidden, webVars, portVars, timers, last>>

-----------------------------------------------------------------------------
(* Specifications *)

NextCalc == Calculate \/ CalcAgain

NextPortfolio == FilterClick

NextPair == Calculate \/ CalculateNext \/ CalcAgain

\* the estimator as a pure function
SpecCalc == InitCalc /\ [][NextCalc]_vars

\* the estimator evaluated twice in a row
SpecPair == InitCalc /\ [][NextPair]_vars

\* the portfolio filter on every modelled markup
SpecPortfolio == InitPortfolio /\ [][NextPortfolio]_vars

NextEst == AreaInput \/ ServiceFormSubmit \/ CTAClick \/ TimerFire

NextWizard ==
    \/ StepNavClick \/ HasWebsiteChange \/ EnableSubmit \/ WebDevSubmit
    \/ TimerFire

NextForm ==
    \/ HasWebsiteChange \/ ProblemCardClick \/ CheckboxClick \/ EnableSubmit
    \/ WebDevSubmit

NextWeb ==
    \/ StepNavClick \/ HasWebsiteChange \/ ProblemCardClick \/ CheckboxClick
    \/ EnableSubmit \/ WebDevSubmit \/ TimerFire

\* the whole page
Next == NextEst \/ NextWeb \/ NextPortfolio

Spec == Init /\ [][Next]_vars

\* every caller of openWhatsApp, with the form changes of the wizard
NextDispatch == NextWizard \/ CTAClick

\* a scheduled timeout does expire: the code never calls clearTimeout and the
\* event loop runs the callback once its delay has passed
SpecDispatch == Init /\ [][NextDispatch]_vars /\ WF_vars(TimerFire)

\* the estimator beside the portfolio filter, the wizard's navigation and
\* its website toggle
NextFlows ==
    \/ ServiceFormSubmit \/ CTAClick \/ TimerFire
    \/ FilterClick \/ StepNavClick \/ HasWebsiteChange

SpecFlows == InitFlows /\ [][NextFlows]_vars

\* every kind of operation of the controller on the page as loaded
NextControls ==
    \/ EnableSubmit \/ StepNavClick \/ HasWebsiteChange \/ WebDevSubmit
    \/ FilterClick \/ ServiceFormSubmit \/ CTAClick \/ TimerFire

SpecControls == Init /\ [][NextControls]_vars

NextServices == RenderAndCompose

\* the two lists of additional services as pure functions of the form
SpecServices == InitFlows /\ [][NextServices]_vars

\* the IT assessment flow
SpecEst == Init /\ [][NextEst]_vars

\* the wizard: navigation, the website toggle, submission, link opening
SpecWizard == Init /\ [][NextWizard]_vars

\* the web-development form: its checkboxes, the website toggle, submission
SpecForm == Init /\ [][NextForm]_vars

-----------------------------------------------------------------------------
(* Properties of the estimator *)

\* area is a number in [MIN_AREA, MAX_AREA]
ValidatedArea(a) ==
    ~isNaN(a) /\ NumLe(Num(MIN_AREA), a) /\ NumLe(a, Num(MAX_AREA))

EstimatorOps == {"handleServiceFormSubmit", "handleITCTA"}

\* C1: on every path that runs the estimator (the assessment form's submit
\* and the CTA click) calculateITNeeds is only called with an area that is a
\* number in [100, 100000]; with any other area the handler reports a
\* validation error and returns before it computes or sends anything.
C1_EstimatorOnlyOnValidatedArea ==
    last.op \in EstimatorOps =>
        /\ \A i \in 1..Len(last.calc) : ValidatedArea(last.calc[i].area)
        /\ ~ValidatedArea(parseFloat(areaValue)) =>
              /\ last.reported \/ last.alerts # <<>>
              /\ last.calc = <<>>
              /\ last.sent = <<>>

\* The submit path alone keeps C1's statement: handleServiceFormSubmit
\* checks the area field's validity before it reads the form.
SubmitPathValidatesArea ==
    last.op = "handleServiceFormSubmit" =>
        /\ \A i \in 1..Len(last.calc) : ValidatedArea(last.calc[i].area)
        /\ ~ValidatedArea(parseFloat(areaValue)) =>
              /\ last.reported
              /\ last.calc = <<>>
              /\ last.rendered = <<>>

AtLeastOne(x) == IsInteger(x) /\ x.num >= 1

\* C2: for every area in [100, 100000] and every building and usage factor
\* of the form, the four results of calculateITNeeds are integers >= 1.
C2_ResultsAtLeastOne ==
    (calcResult # <<>> /\ ValidatedArea(calcData.area)) =>
        /\ AtLeastOne(calcResult[1].accessPoints)
        /\ AtLeastOne(calcResult[1].estimatedDevices)
        /\ AtLeastOne(calcResult[1].recommendedServers)
        /\ AtLeastOne(calcResult[1].recommendedWorkstations)

\* the smallest area with the smallest usage factor: floor(100/100*0.4*2) is
\* 0 and the estimate is raised to 1
C2_Witness ==
    /\ calcResult # <<>>
    /\ calcData.area = Num(MIN_AREA)
    /\ calcData.usageFactor = parseFloat(<<"0", ".", "4">>)
    /\ calcResult[1].estimatedDevices = Num(1)

\* r = max(1, ceil(n/d)) for integers n and d > 0, stated by its bounds
IsMaxOneCeil(r, n, d) ==
    /\ IsInteger(r)
    /\ r.num >= 1
    /\ n <= r.num * d
    /\ r.num > 1 => (r.num - 1) * d < n

\* r = max(1, floor(n/d)) for integers n and d > 0, stated by its bounds
IsMaxOneFloor(r, n, d) ==
    /\ IsInteger(r)
    /\ r.num >= 1
    /\ n < (r.num + 1) * d
    /\ r.num > 1 => r.num * d <= n

\* C10: on validated input calculateITNeeds equals the reference formulas
\*   accessPoints = max(1, ceil(area*buildingFactor*usageFactor/1500)),
\*   estimatedDevices = max(1, floor(area/100*usageFactor*2)),
\*   recommendedServers = max(1, ceil(area/5000)),
\*   recommendedWorkstations = max(1, ceil(area/200));
\* area 1500 with both factors 1 gives 1 access point, and area 10000 with
\* both factors 1 gives 2 servers and 50 workstations.
C10_ReferenceFormulas ==
    (calcResult # <<>> /\ ValidatedArea(calcData.area)) =>
        LET a == calcData.area
            b == calcData.buildingFactor
            u == calcData.usageFactor
            r == calcResult[1]
        IN  /\ IsMaxOneCeil(r.accessPoints, a.num * b.num * u.num,
                            a.den * b.den * u.den * 1500)
            /\ IsMaxOneFloor(r.estimatedDevices, a.num * u.num * 2,
                             a.den * u.den * 100)
            /\ IsMaxOneCeil(r.recommendedServers, a.num, a.den * 5000)
            /\ IsMaxOneCeil(r.recommendedWorkstations, a.num, a.den * 200)
            /\ (a = Num(1500) /\ b = Num(1) /\ u = Num(1)) =>
                  r.accessPoints = Num(1)
            /\ (a = Num(10000) /\ b = Num(1) /\ u = Num(1)) =>
                  /\ r.recommendedServers = Num(2)
                  /\ r.recommendedWorkstations = Num(50)

C10_Witness ==
    /\ calcResult # <<>>
    /\ calcData = [area |-> Num(10000), buildingFactor |-> Num(1),
                   usageFactor |-> Num(1)]
    /\ calcResult[1].recommendedServers = Num(2)
    /\ calcResult[1].recommendedWorkstations = Num(50)

\* two evaluations with the same factors on validated areas, the first
\* area not above the second
SameFactorsAreaNotAbove ==
    /\ calcPrev # <<>>
    /\ calcResult # <<>>
    /\ calcPrev[1].data.buildingFactor = calcData.buildingFactor
    /\ calcPrev[1].data.usageFactor = calcData.usageFactor
    /\ ValidatedArea(calcPrev[1].data.area)
    /\ ValidatedArea(calcData.area)
    /\ NumLe(calcPrev[1].data.area, calcData.area)

\* C11: with the building and usage factors held fixed, accessPoints,
\* recommendedServers and recommendedWorkstations do not decrease when the
\* area grows: for areas a1 <= a2 in [100, 100000] each of the three
\* results for a1 is <= the result for a2.
C11_MonotoneInArea ==
    SameFactorsAreaNotAbove =>
        /\ NumLe(calcPrev[1].result.accessPoints, calcResult[1].accessPoints)
        /\ NumLe(calcPrev[1].result.recommendedServers,
                 calcResult[1].recommendedServers)
        /\ NumLe(calcPrev[1].result.recommendedWorkstations,
                 calcResult[1].recommendedWorkstations)

\* a strictly larger area that raises all three results
C11_Witness ==
    /\ SameFactorsAreaNotAbove
    /\ NumLt(calcPrev[1].data.area, calcData.area)
    /\ NumLt(calcPrev[1].result.accessPoints, calcResult[1].accessPoints)
    /\ NumLt(calcPrev[1].result.recommendedServers,
             calcResult[1].recommendedServers)
    /\ NumLt(calcPrev[1].result.recommendedWorkstations,
             calcResult[1].recommendedWorkstations)

-----------------------------------------------------------------------------
(* Properties of the portfolio filter *)

\* the tags of a data-category: its maximal runs without a space
TagsOf(s) ==
    {SubSeq(s, i, j) : i \in 1..Len(s), j \in 1..Len(s)} \cap
    {t \in UNION {[1..n -> Range(s) \ {" "}] : n \in 1..Len(s)} :
        \E i \in 1..Len(s) :
            /\ i + Len(t) - 1 <= Len(s)
            /\ SubSeq(s, i, i + Len(t) - 1) = t
            /\ (i = 1 \/ s[i - 1] = " ")
            /\ (i + Len(t) - 1 = Len(s) \/ s[i + Len(t)] = " ")}

\* C9: after filterPortfolioItems(tag) an item is visible if and only if tag
\* is 'all' or tag is one of the tags of the item's category; a tag that
\* matches no item leaves no item visible.
C9_VisibleIffTagged ==
    last.op = "handleFilterClick" =>
        \A f \in activeFilter : \A i \in Items :
            /\ itemStyle[i].display \in {"block", "none"}
            /\ itemStyle[i].display = "block" <=>
                  (f = <<"a", "l", "l">> \/ f \in TagsOf(itemCategory[i]))

-----------------------------------------------------------------------------
(* Properties of the wizard *)

VisiblePanels == {p \in Panels : ~hidden[p]}

\* the last handler run was a web-development submission that was accepted
AcceptedSubmit == last.op = "handleWebDevSubmit" /\ last.sent # <<>>

\* C3: in every reachable state of the wizard exactly one panel among
\* step1..step4 and the thank-you panel is visible.
C3_ExactlyOnePanelVisible == Cardinality(VisiblePanels) = 1

\* C4: after showStep(T), for T the target of any navigation button,
\* exactly one of step1..step4 is visible, and it is T.
C4_ShowStepShowsTarget ==
    last.op = "showStep" => {p \in StepIds : ~hidden[p]} = {last.target}

\* showStep("step3") has run from another step
C4_Witness ==
    /\ last.op = "showStep"
    /\ last.target = "step3"
    /\ ~hidden["step3"]
    /\ hidden["step1"]

\* C5: the thank-you panel becomes visible only by a submission accepted
\* while step4 is the visible panel; once it is visible no later submission
\* is accepted and no step is shown again.
C5_ThankYouOnlyFromStep4Once ==
    [][/\ (hidden["thankYouMessage"] /\ ~hidden'["thankYouMessage"]) =>
            /\ VisiblePanels = {"step4"}
            /\ last'.op = "handleWebDevSubmit"
            /\ last'.sent # <<>>
       /\ ~hidden["thankYouMessage"] =>
            /\ ~(last'.op = "handleWebDevSubmit" /\ timers' # timers)
            /\ \A p \in StepIds : hidden[p] => hidden'[p]]_vars

\* C6: handleWebDevSubmit with a non-empty honeypot changes nothing: the
\* panels keep their visibility, no link is built or scheduled, no
\* analytics event is sent and no error is shown.
C6_HoneypotNoEffect ==
    [][(last'.op = "handleWebDevSubmit" /\ last'.honeypot # "") =>
            /\ hidden' = hidden
            /\ timers' = timers
            /\ UNCHANGED <<hasWebsite, checked, selected, submitDisabled>>
            /\ last'.sent = <<>>
            /\ last'.gtag = <<>>
            /\ last'.alerts = <<>>
            /\ last'.form = <<>>]_vars

\* a submission with a filled honeypot on step4, with a website choice
\* made: step4 is still shown and the thank-you panel is not
C6_Witness ==
    /\ last.op = "handleWebDevSubmit"
    /\ last.honeypot # ""
    /\ hasWebsite # ""
    /\ ~hidden["step4"]
    /\ hidden["thankYouMessage"]

\* C7: after any change of the hasWebsite radio, 'yes' shows the problems
\* section and the URL field and hides the benefits section, 'no' shows the
\* benefits section and hides the other two; the two sections are never
\* both visible.
C7_SectionsExclusive ==
    /\ hasWebsite = "yes" =>
          /\ ~hidden["problemsSection"]
          /\ ~hidden["websiteUrlContainer"]
          /\ hidden["benefitsSection"]
    /\ hasWebsite = "no" =>
          /\ ~hidden["benefitsSection"]
          /\ hidden["problemsSection"]
          /\ hidden["websiteUrlContainer"]
    /\ ~(~hidden["problemsSection"] /\ ~hidden["benefitsSection"])

\* 'no' is chosen after a submission made with 'yes'
C7_Witness ==
    /\ hasWebsite = "no"
    /\ ~hidden["benefitsSection"]
    /\ hidden["problemsSection"]
    /\ \E i \in 1..Len(timers) : timers[i].text[2].hasWebsite = "Yes"

-----------------------------------------------------------------------------
(* Properties of the web-development message *)

\* the labels a message lists, in the order of the text
ListedLabels(message) ==
    LET texts(section) ==
            IF section = <<>> THEN <<>>
            ELSE [i \in 1..Len(section[1].items) |-> section[1].items[i].text]
    IN  texts(message.reportedProblems) \o texts(message.desiredBenefits)

Occurrences(seq, x) == Cardinality({i \in 1..Len(seq) : seq[i] = x})

\* labels is exactly the labels of the checked boxes among boxes, each once,
\* in the order of boxes
ListsCheckedOf(labels, boxes) ==
    /\ \A k \in 1..Len(boxes) :
          Occurrences(labels, LabelOf(boxes[k])) = IF checked[boxes[k]] THEN 1 ELSE 0
    /\ \A i \in 1..Len(labels) : \E k \in 1..Len(boxes) : labels[i] = LabelOf(boxes[k])
    /\ \A i, j \in 1..Len(labels) : \A k, l \in 1..Len(boxes) :
          (i < j /\ labels[i] = LabelOf(boxes[k]) /\ labels[j] = LabelOf(boxes[l]))
              => k < l

\* C8 as claimed: the message of an accepted submission lists the label of
\* every problem or benefit checkbox that is checked at submit time exactly
\* once, in document order, and no label of an unchecked checkbox.
C8_ListsEveryCheckedLabel ==
    AcceptedSubmit =>
        ListsCheckedOf(ListedLabels(last.sent[1]), ProblemBoxes \o BenefitBoxes)

\* C8 as amended: the message lists exactly the checked boxes of the section
\* that hasWebsite selects (problems for 'yes', benefits for 'no'), each
\* once and in document order, and no label of the other section.
C8_ListsCheckedLabelsOfSection ==
    AcceptedSubmit =>
        ListsCheckedOf(ListedLabels(last.sent[1]),
                       IF hasWebsite = "yes" THEN ProblemBoxes ELSE BenefitBoxes)

\* both problems are checked (the first through its card, which is marked
\* selected), a benefit is still checked in the hidden section, and the
\* accepted message lists two labels
C8_Witness ==
    /\ AcceptedSubmit
    /\ hasWebsite = "yes"
    /\ checked["p1"] /\ checked["p2"] /\ checked["b1"]
    /\ selected["p1"]
    /\ Len(ListedLabels(last.sent[1])) = 2

\* some box among boxes is checked
SomeChecked(boxes) == \E k \in 1..Len(boxes) : checked[boxes[k]]

\* the labels of a list of the message
SectionLabels(section) ==
    IF section = <<>> THEN {}
    ELSE {section[1].items[i].text : i \in 1..Len(section[1].items)}

\* C18: the message of sendWebDevToWhatsApp has the 'Reported Problems' list
\* only when hasWebsite is 'yes' and a problem is checked, and the 'Desired
\* Benefits' list only when hasWebsite is 'no' and a benefit is checked; it
\* never has both lists, and boxes left checked in the section the current
\* hasWebsite value hides add nothing to it.
C18_ListsFollowHasWebsite ==
    (last.op = "handleWebDevSubmit" /\ last.sent # <<>>) =>
        LET message == last.sent[1]
        IN  /\ message.reportedProblems # <<>> <=>
                  (hasWebsite = "yes" /\ SomeChecked(ProblemBoxes))
            /\ message.desiredBenefits # <<>> <=>
                  (hasWebsite = "no" /\ SomeChecked(BenefitBoxes))
            /\ ~(message.reportedProblems # <<>> /\ message.desiredBenefits # <<>>)
            /\ hasWebsite = "yes" =>
                  /\ hidden["benefitsSection"]
                  /\ SectionLabels(message.reportedProblems)
                        \cup SectionLabels(message.desiredBenefits)
                        \subseteq {LabelOf(cb) : cb \in Range(ProblemBoxes)}
            /\ hasWebsite = "no" =>
                  /\ hidden["problemsSection"]
                  /\ SectionLabels(message.reportedProblems)
                        \cup SectionLabels(message.desiredBenefits)
                        \subseteq {LabelOf(cb) : cb \in Range(BenefitBoxes)}

\* hasWebsite is 'no' with a problem still checked in the hidden section and
\* one benefit checked: the message has the benefits list alone
C18_Witness ==
    /\ last.op = "handleWebDevSubmit"
    /\ last.sent # <<>>
    /\ hasWebsite = "no"
    /\ checked["p1"]
    /\ checked["b2"] /\ ~checked["b1"]
    /\ last.sent[1].reportedProblems = <<>>
    /\ Len(last.sent[1].desiredBenefits) = 1
    /\ Len(last.sent[1].desiredBenefits[1].items) = 1

-----------------------------------------------------------------------------
(* Properties of error handling and dispatch *)

SubmissionOps == {"handleServiceFormSubmit", "handleITCTA", "handleWebDevSubmit"}

\* C12: a runtime failure raised while handleServiceFormSubmit, handleITCTA
\* or handleWebDevSubmit processes a submission is caught and shown to the
\* user through the error notification exactly once, and never leaves the
\* handler as an uncaught exception.
C12_FailureCaughtAndShownOnce ==
    (last.op \in SubmissionOps /\ last.threw) =>
        /\ ~last.uncaught
        /\ Len(last.alerts) = 1

\* The two estimator handlers keep C12's statement: getITFormData and what
\* follows it run inside try/catch, and a failure of the dispatch is caught
\* inside sendITAssessmentToWhatsApp.
EstimatorFailureCaughtAndShownOnce ==
    (last.op \in EstimatorOps /\ last.threw) =>
        /\ ~last.uncaught
        /\ Len(last.alerts) = 1
        /\ last.opened = <<>>

\* an estimator handler failed: no usage radio was checked
EstimatorFailureReached ==
    last.op \in EstimatorOps /\ last.threw

DispatchOps == {"handleITCTA", "handleWebDevSubmit"}

\* what a link carries, as far as the wizard can change it during the delay
LinkKind(link) ==
    LET message == link.text[2]
    IN  IF message.title = "*New Web Development Inquiry*"
        THEN IF message.hasWebsite = "Yes" THEN "web:Yes" ELSE "web:No"
        ELSE "it"

LinkKinds == {"web:Yes", "web:No", "it"}

\* one step of the page, as far as the scheduled links are concerned:
\* a handler run that called openWhatsApp appended exactly one link, the one
\* of the message it built from the form as it was then, opened nothing
\* itself and, for the web form, had already shown the thank-you panel and
\* hidden step4; an expiring timeout opened the oldest link and removed it;
\* any other step left the scheduled links as they were
DispatchStep ==
    \/ /\ last'.op \in DispatchOps
       /\ last'.sent # <<>>
       /\ Len(last'.sent) = 1
       /\ timers' = Append(timers, whatsappLink(last'.sent[1]))
       /\ last'.opened = <<>>
       /\ last'.op = "handleWebDevSubmit" =>
              /\ last'.sent[1] = webDevMessage(last'.form[1])
              /\ ~hidden'["thankYouMessage"]
              /\ hidden'["step4"]
    \/ /\ last'.op = "timeout"
       /\ timers # <<>>
       /\ last'.opened = <<Head(timers)>>
       /\ timers' = Tail(timers)
    \/ /\ ~(last'.op \in DispatchOps /\ last'.sent # <<>>)
       /\ last'.op # "timeout"
       /\ last'.opened = <<>>
       /\ timers' = timers

\* as DispatchStep, with the call of openWhatsApp that fails: encodeURIComponent
\* throws before setTimeout is reached, nothing is scheduled and the failure
\* is shown once
DispatchOrFailureStep ==
    \/ /\ last'.op \in DispatchOps
       /\ last'.sent # <<>>
       /\ ~last'.threw
       /\ ~encodeURIComponentThrows(last'.sent[1])
       /\ Len(last'.sent) = 1
       /\ timers' = Append(timers, whatsappLink(last'.sent[1]))
       /\ last'.opened = <<>>
       /\ last'.alerts = <<>>
       /\ last'.op = "handleWebDevSubmit" =>
              /\ last'.sent[1] = webDevMessage(last'.form[1])
              /\ ~hidden'["thankYouMessage"]
              /\ hidden'["step4"]
    \/ /\ last'.op \in DispatchOps
       /\ last'.sent # <<>>
       /\ last'.threw
       /\ encodeURIComponentThrows(last'.sent[1])
       /\ timers' = timers
       /\ last'.opened = <<>>
       /\ Len(last'.alerts) = 1
    \/ /\ last'.op = "timeout"
       /\ timers # <<>>
       /\ last'.opened = <<Head(timers)>>
       /\ timers' = Tail(timers)
    \/ /\ ~(last'.op \in DispatchOps /\ last'.sent # <<>>)
       /\ last'.op # "timeout"
       /\ last'.opened = <<>>
       /\ timers' = timers

\* C13: every call of openWhatsApp schedules exactly one opening of the
\* link; the opening happens in a later step than the handler run, whose UI
\* transition is applied by then; a scheduled opening is never cancelled or
\* altered by later form changes, and every scheduled link is eventually
\* opened, so k accepted submissions produce exactly k openings, each with
\* the message built at its submission.
C13_EachDispatchOpensOnce ==
    /\ [][DispatchStep]_vars
    /\ \A k \in LinkKinds :
          (timers # <<>> /\ LinkKind(Head(timers)) = k)
              ~> (last.opened # <<>> /\ LinkKind(last.opened[1]) = k)

\* C13 as amended: every call of openWhatsApp that encodes its message
\* schedules exactly one opening of the link, which happens in a later step
\* than the handler run; a call whose message cannot be encoded schedules
\* nothing and is shown as an error; a scheduled opening is never cancelled
\* or altered, and every scheduled link is eventually opened with the
\* message built at its submission.
C13_EachEncodedDispatchOpensOnce ==
    /\ [][DispatchOrFailureStep]_vars
    /\ \A k \in LinkKinds :
          (timers # <<>> /\ LinkKind(Head(timers)) = k)
              ~> (last.opened # <<>> /\ LinkKind(last.opened[1]) = k)

\* a link of a submission made with hasWebsite 'yes' is opened after the
\* answer was changed to 'no' during the delay
C13_Witness ==
    /\ last.op = "timeout"
    /\ last.opened # <<>>
    /\ LinkKind(last.opened[1]) = "web:Yes"
    /\ hasWebsite = "no"
    /\ ~hidden["thankYouMessage"]

-----------------------------------------------------------------------------
(* Properties of the analytics hook *)

TrackedOps == {"handleServiceFormSubmit", "handleWebDevSubmit"}

\* the handler run was cut short by validation, by the honeypot or by a
\* runtime failure
SubmissionAborted ==
    \/ last.reported
    \/ last.alerts # <<>>
    \/ last.honeypot # ""
    \/ last.threw

\* the handler run did all of its work: the estimate is rendered, or the
\* thank-you panel is shown and the message is scheduled
SubmissionSucceeded ==
    /\ ~SubmissionAborted
    /\ \/ last.op = "handleServiceFormSubmit" /\ last.rendered # <<>>
       \/ last.op = "handleWebDevSubmit" /\ last.sent # <<>>

\* C14: the analytics hook is invoked exactly once after each successful
\* submission (assessment submit, web-development submit) and never for a
\* submission aborted by validation, by the honeypot or by a runtime failure;
\* without a global gtag function the submission has its other effects and
\* no failure.
C14_AnalyticsOnlyOnSuccess ==
    last.op \in TrackedOps =>
        /\ SubmissionSucceeded => Len(last.tracked) = 1
        /\ SubmissionAborted => (last.tracked = <<>> /\ last.gtag = <<>>)
        /\ Len(last.gtag) <= Len(last.tracked)
        /\ (last.tracked # <<>> /\ last.gtag = <<>>) => ~last.uncaught

\* The assessment submit alone keeps C14's statement: trackEvent is the last
\* statement of its try block.
AssessmentAnalyticsOnlyOnSuccess ==
    last.op = "handleServiceFormSubmit" =>
        /\ SubmissionSucceeded => Len(last.tracked) = 1
        /\ SubmissionAborted => (last.tracked = <<>> /\ last.gtag = <<>>)
        /\ Len(last.gtag) <= Len(last.tracked)
        /\ (last.tracked # <<>> /\ last.gtag = <<>>) =>
              (~last.uncaught /\ last.rendered # <<>>)

\* an assessment submit that succeeded without a gtag function
AssessmentWithoutGtagReached ==
    /\ last.op = "handleServiceFormSubmit"
    /\ SubmissionSucceeded
    /\ last.tracked # <<>>
    /\ last.gtag = <<>>

-----------------------------------------------------------------------------
(* Independence of the flows *)

WebsiteSections == {"problemsSection", "benefitsSection", "websiteUrlContainer"}

\* the estimator handler that just ran failed with a runtime error
EstimatorFailed == last.op \in EstimatorOps /\ last.threw

\* C15: an estimator operation (handleServiceFormSubmit or handleITCTA),
\* whether it succeeds, is aborted by validation or fails with a runtime
\* error, leaves the portfolio items' visibility, the wizard's panels and the
\* website-toggle sections unchanged; right after such a failure a filter
\* click and a step navigation still do what they do otherwise.
C15_EstimatorLeavesOtherFlows ==
    [][/\ last'.op \in EstimatorOps =>
            /\ itemStyle' = itemStyle
            /\ activeFilter' = activeFilter
            /\ \A e \in Panels \cup WebsiteSections : hidden'[e] = hidden[e]
            /\ UNCHANGED <<hasWebsite, checked, selected, submitDisabled>>
            /\ ~last'.uncaught
       /\ (EstimatorFailed /\ last'.op = "handleFilterClick") =>
            \E f \in FilterTexts :
                /\ activeFilter' = {f}
                /\ \A i \in Items :
                      itemStyle'[i].display =
                          IF f = <<"a", "l", "l">> \/ includes(itemCategory[i], f)
                          THEN "block" ELSE "none"
       /\ (EstimatorFailed /\ last'.op = "showStep") =>
            /\ ~hidden'[last'.target]
            /\ \A p \in StepIds \ {last'.target} : hidden'[p]
      ]_vars

\* an estimator handler failed while the portfolio was filtered, the wizard
\* stood on step3 and the problems section was shown
C15_Witness ==
    /\ EstimatorFailed
    /\ activeFilter = {<<"i", "t">>}
    /\ itemStyle[1].display = "none"
    /\ ~hidden["step3"]
    /\ ~hidden["problemsSection"]

-----------------------------------------------------------------------------
(* The submit control *)

\* C16: the submit control's disabled flag changes only through
\* enableSubmit, which takes it from disabled to enabled; no other operation
\* enables it and no operation disables it again.
C16_OnlyEnableSubmitEnables ==
    [][/\ submitDisabled' # submitDisabled =>
            (last'.op = "enableSubmit" /\ submitDisabled /\ ~submitDisabled')
       /\ last'.op = "enableSubmit" => ~submitDisabled'
       /\ ~submitDisabled => ~submitDisabled'
      ]_vars

\* the control is enabled and the controller has since run a submission
C16_Witness ==
    /\ ~submitDisabled
    /\ last.op = "handleWebDevSubmit"
    /\ last.sent # <<>>

-----------------------------------------------------------------------------
(* Additional services *)

ServiceOrder == <<"structured cabling", "CCTV", "access control", "telephony">>

\* the flag that decides a service's entry
ServiceFlag(formData, service) ==
    CASE service = "structured cabling" -> formData.needsCabling
      [] service = "CCTV"               -> formData.needsCCTV
      [] service = "access control"     -> formData.needsAccessControl
      [] service = "telephony"          -> formData.needsTelephony

\* the subsequence of ServiceOrder whose flag is set
FlaggedServices(formData) ==
    LET Flagged(service) == ServiceFlag(formData, service)
    IN  SelectSeq(ServiceOrder, Flagged)

\* C17: for each of the 16 combinations of the four service flags, the list
\* of additional services of displayITResults and that of
\* sendITAssessmentToWhatsApp are exactly the subsequence of (structured
\* cabling, CCTV, access control, telephony) whose flag is set, in that
\* order; the two lists are the same.
C17_ServicesFollowFlags ==
    last.op = "services" =>
        LET formData == last.form[1]
            shown    == last.rendered[1]
            message  == last.sent[1]
        IN  /\ shown.consider = FlaggedServices(formData)
            /\ message.additionalServices = FlaggedServices(formData)
            /\ shown.consider = message.additionalServices
            /\ shown.additionalServicesText =
                  IF FlaggedServices(formData) = <<>>
                  THEN <<"Basic IT infrastructure assessment">>
                  ELSE <<"Includes">> \o FlaggedServices(formData)

\* access control and telephony without the first two: the last two entries
\* in their fixed order, in both lists
C17_Witness ==
    /\ last.op = "services"
    /\ ~last.form[1].needsCabling
    /\ ~last.form[1].needsCCTV
    /\ last.rendered[1].consider = <<"access control", "telephony">>
    /\ last.sent[1].additionalServices = <<"access control", "telephony">>

=============================================================================
